---- MODULE Spec2Model ----
(***************************************************************************)
(* Operating-hours engine of the restaurant backend                        *)
(* (src/shared/utils/OperatingHoursUtils.ts): validateOperatingHours,      *)
(* isOpenAt and getNextOpeningTime over a weekly schedule.                 *)
(*                                                                         *)
(* A time string is the sequence of its characters, so that the time       *)
(* pattern, split(':') and parseInt are computed as the code computes      *)
(* them.  A Date is its number of milliseconds since 1970-01-01T00:00, a   *)
(* Thursday; the engine does no timezone conversion, so local time is      *)
(* that reference frame.                                                   *)
(***************************************************************************)
EXTENDS Integers, Sequences, FiniteSets, TLC

VARIABLES
  operatingHours,  \* the schedule an engine call is made on
  dateTime,        \* the instant an engine call is made at
  result,          \* what the last call returned or threw
  input,           \* the argument of sanitizeOperatingHours
  schedules,       \* the schedule objects of the heap, by reference
  entries,         \* the day-entry objects of the heap, by reference
  dates,           \* the Date objects of the heap, by reference
  store,           \* the rows of the restaurant_location table
  pending          \* the controller requests in flight

heapVars == <<schedules, entries, dates>>

storeVars == <<store, pending>>

vars == <<operatingHours, dateTime, result, input, heapVars, storeVars>>

(***************************************************************************)
(* Bounds of the explored inputs.                                          *)
(***************************************************************************)
\* number of well-formed times a varied day draws its open and close from
NumTimes == 3
\* number of wall-clock readings an instant draws its time of day from
NumClocks == 6
\* number of field values (well-formed, malformed, missing) a validated
\* day draws its open and close from
NumFormats == 7

(***************************************************************************)
(* Units of the Date arithmetic.                                           *)
(***************************************************************************)
MsPerMinute == 60000
MsPerHour == 3600000
MsPerDay == 86400000

\* the field value of a property the object does not have
Undefined == <<"undefined">>

\* a field value that is a JSON array holding the one string s
ArrayOf(s) == <<"[]">> \o s

IsArray(v) == Len(v) > 0 /\ v[1] = "[]"

\* typeof v === 'string': only a string has split
IsString(v) == v # Undefined /\ ~IsArray(v)

\* the string RegExp.prototype.test and template literals coerce v to
StringOf(v) ==
  IF v = Undefined THEN <<"u", "n", "d", "e", "f", "i", "n", "e", "d">>
  ELSE IF IsArray(v) THEN Tail(v)
  ELSE v

Digits == <<"0", "1", "2", "3", "4", "5", "6", "7", "8", "9">>

DigitSet == {Digits[i] : i \in 1..10}

DigitValue(c) == (CHOOSE i \in 1..10 : Digits[i] = c) - 1

\* OperatingHoursUtils.DAYS
DAYS == <<"monday", "tuesday", "wednesday", "thursday", "friday", "saturday", "sunday">>

\* the dayNames table of isOpenAt and getNextOpeningTime, indexed by getDay()
dayNames == <<"sunday", "monday", "tuesday", "wednesday", "thursday", "friday", "saturday">>

DaySet == {DAYS[i] : i \in 1..7}

\* the default the README describes: 9 AM - 10 PM on all seven days
DEFAULT_OPERATING_HOURS_Uniform ==
  [d \in DaySet |->
     [open |-> <<"0", "9", ":", "0", "0">>, close |-> <<"2", "2", ":", "0", "0">>, closed |-> FALSE]]

\* DEFAULT_OPERATING_HOURS
DEFAULT_OPERATING_HOURS ==
  [d \in DaySet |->
     IF d = "saturday"
       THEN [open |-> <<"1", "0", ":", "0", "0">>, close |-> <<"2", "2", ":", "0", "0">>, closed |-> FALSE]
     ELSE IF d = "sunday"
       THEN [open |-> <<"1", "0", ":", "0", "0">>, close |-> <<"2", "1", ":", "0", "0">>, closed |-> FALSE]
     ELSE [open |-> <<"0", "9", ":", "0", "0">>, close |-> <<"2", "2", ":", "0", "0">>, closed |-> FALSE]]

(***************************************************************************)
(* Date accessors (local time).                                            *)
(***************************************************************************)
getDay(t) == ((t \div MsPerDay) + 4) % 7

getHours(t) == (t % MsPerDay) \div MsPerHour

getMinutes(t) == (t % MsPerHour) \div MsPerMinute

\* checkDate.setDate(startDate.getDate() + i) on a copy of startDate
AddDays(t, i) == t + i * MsPerDay

\* openingTime.setHours(hours, minutes, 0, 0)
setHours(t, hours, minutes) ==
  (t \div MsPerDay) * MsPerDay + hours * MsPerHour + minutes * MsPerMinute

(***************************************************************************)
(* String helpers: time.split(':') and parseInt(x || '0', 10).             *)
(***************************************************************************)
RECURSIVE Split(_)
Split(s) ==
  IF \A i \in 1..Len(s) : s[i] # ":"
    THEN <<s>>
    ELSE LET k == CHOOSE i \in 1..Len(s) : s[i] = ":" /\ \A j \in 1..(i - 1) : s[j] # ":"
         IN <<SubSeq(s, 1, k - 1)>> \o Split(SubSeq(s, k + 1, Len(s)))

RECURSIVE DecimalValue(_)
DecimalValue(s) ==
  IF Len(s) = 0 THEN 0
  ELSE 10 * DecimalValue(SubSeq(s, 1, Len(s) - 1)) + DigitValue(s[Len(s)])

\* parseInt(part || '0', 10) where part is the idx-th element of the split,
\* undefined when the split is shorter, and '' is falsy
ParsePart(parts, idx) ==
  IF idx > Len(parts) \/ Len(parts[idx]) = 0 THEN 0 ELSE DecimalValue(parts[idx])

\* OperatingHoursUtils.timeToMinutes
timeToMinutes(time) ==
  LET parts == Split(time)
  IN ParsePart(parts, 1) * 60 + ParsePart(parts, 2)

\* TIME_PATTERN with the hour alternative 2[0-4]
TIME_PATTERN_Allows24(s) ==
  \E k \in 1..2 :
    /\ Len(s) = k + 3
    /\ \/ k = 1 /\ s[1] \in DigitSet
       \/ k = 2 /\ s[1] \in {"0", "1"} /\ s[2] \in DigitSet
       \/ k = 2 /\ s[1] = "2" /\ s[2] \in {"0", "1", "2", "3", "4"}
    /\ s[k + 1] = ":"
    /\ s[k + 2] \in {"0", "1", "2", "3", "4", "5"}
    /\ s[k + 3] \in DigitSet

\* OperatingHoursUtils.TIME_PATTERN: /^([01]?[0-9]|2[0-3]):[0-5][0-9]$/
TIME_PATTERN(s) ==
  \E k \in 1..2 :
    /\ Len(s) = k + 3
    /\ \/ k = 1 /\ s[1] \in DigitSet
       \/ k = 2 /\ s[1] \in {"0", "1"} /\ s[2] \in DigitSet
       \/ k = 2 /\ s[1] = "2" /\ s[2] \in {"0", "1", "2", "3"}
    /\ s[k + 1] = ":"
    /\ s[k + 2] \in {"0", "1", "2", "3", "4", "5"}
    /\ s[k + 3] \in DigitSet

\* OperatingHoursUtils.isValidTimeFormat: TIME_PATTERN.test(time)
isValidTimeFormat(time) == TIME_PATTERN(StringOf(time))

(***************************************************************************)
(* isOpenAt                                                                *)
(***************************************************************************)
\* InWindow with the closing minute excluded from a same-day window
InWindow_ExclusiveClose(currentMinutes, openMinutes, closeMinutes) ==
  IF openMinutes < closeMinutes
    THEN currentMinutes >= openMinutes /\ currentMinutes < closeMinutes
    ELSE currentMinutes >= openMinutes \/ currentMinutes <= closeMinutes

\* InWindow that is not yet open at the opening minute
InWindow_ExclusiveOpen(currentMinutes, openMinutes, closeMinutes) ==
  IF openMinutes < closeMinutes
    THEN currentMinutes > openMinutes /\ currentMinutes <= closeMinutes
    ELSE currentMinutes > openMinutes \/ currentMinutes <= closeMinutes

\* InWindow with equal times handled as a same-day window
InWindow_EqualIsSameDay(currentMinutes, openMinutes, closeMinutes) ==
  IF openMinutes <= closeMinutes
    THEN currentMinutes >= openMinutes /\ currentMinutes <= closeMinutes
    ELSE currentMinutes >= openMinutes \/ currentMinutes <= closeMinutes

\* the two return statements of isOpenAt once the minutes are computed
InWindow(currentMinutes, openMinutes, closeMinutes) ==
  IF openMinutes < closeMinutes
    THEN currentMinutes >= openMinutes /\ currentMinutes <= closeMinutes
    ELSE currentMinutes >= openMinutes \/ currentMinutes <= closeMinutes

Threw == [threw |-> TRUE, value |-> FALSE]

Returned(v) == [threw |-> FALSE, value |-> v]

\* isOpenAt without the early return for a closed day
isOpenAt_NoClosedReturn(oh, dt) ==
  LET dayOfWeek == dayNames[getDay(dt) + 1]
  IN IF dayOfWeek \notin DOMAIN oh THEN Threw
     ELSE LET daySchedule == oh[dayOfWeek]
          IN IF ~IsString(daySchedule.open) \/ ~IsString(daySchedule.close) THEN Threw
             ELSE Returned(InWindow(getHours(dt) * 60 + getMinutes(dt),
                                    timeToMinutes(daySchedule.open),
                                    timeToMinutes(daySchedule.close)))

\* isOpenAt that also answers true inside the window the previous day's
\* entry carries over midnight
isOpenAt_CarriesOvernight(oh, dt) ==
  LET daySchedule == oh[dayNames[getDay(dt) + 1]]
      before == oh[dayNames[getDay(dt + 6 * MsPerDay) + 1]]
      currentMinutes == getHours(dt) * 60 + getMinutes(dt)
  IN Returned(
       \/ /\ ~daySchedule.closed
          /\ InWindow(currentMinutes, timeToMinutes(daySchedule.open),
                      timeToMinutes(daySchedule.close))
       \/ /\ ~before.closed
          /\ timeToMinutes(before.close) < timeToMinutes(before.open)
          /\ currentMinutes <= timeToMinutes(before.close))

\* OperatingHoursUtils.isOpenAt; reading a property of undefined throws
isOpenAt(oh, dt) ==
  LET dayOfWeek == dayNames[getDay(dt) + 1]
  IN IF dayOfWeek \notin DOMAIN oh THEN Threw
     ELSE LET daySchedule == oh[dayOfWeek]
          IN IF daySchedule.closed THEN Returned(FALSE)
             ELSE IF ~IsString(daySchedule.open) \/ ~IsString(daySchedule.close) THEN Threw
             ELSE Returned(InWindow(getHours(dt) * 60 + getMinutes(dt),
                                    timeToMinutes(daySchedule.open),
                                    timeToMinutes(daySchedule.close)))

(***************************************************************************)
(* getNextOpeningTime                                                      *)
(***************************************************************************)
\* number of day offsets the loop of getNextOpeningTime examines
ScanDays == 7

NoDate == [threw |-> FALSE, isNull |-> TRUE, time |-> 0]

ADate(t) == [threw |-> FALSE, isNull |-> FALSE, time |-> t]

DateThrew == [threw |-> TRUE, isNull |-> FALSE, time |-> 0]

\* the opening instant computed for checkDate from the day's open string
OpeningTime(checkDate, open) ==
  LET parts == Split(open)
  IN setHours(checkDate, ParsePart(parts, 1), ParsePart(parts, 2))

\* SkipToday that never skips
SkipToday_Never(i, openingTime, startDate) == FALSE

\* SkipToday that lets an opening instant equal to startDate through
SkipToday_Strict(i, openingTime, startDate) == i = 0 /\ openingTime < startDate

\* the "if it's today" test that skips a candidate
SkipToday(i, openingTime, startDate) == i = 0 /\ openingTime <= startDate

\* IsCandidate that ignores the closed flag
IsCandidate_IgnoresClosed(daySchedule) == TRUE

\* the test that makes a day a candidate: if (!daySchedule.closed)
IsCandidate(daySchedule) == ~daySchedule.closed

\* a loop test that lets the offset ScanDays through
LoopContinues_Inclusive(i) == i <= ScanDays

\* the loop test: i < 7
LoopContinues(i) == i < ScanDays

\* the loop of getNextOpeningTime from offset i on
RECURSIVE ScanFrom(_, _, _)
ScanFrom(oh, startDate, i) ==
  IF ~LoopContinues(i) THEN NoDate
  ELSE LET checkDate == AddDays(startDate, i)
           dayOfWeek == dayNames[getDay(checkDate) + 1]
       IN IF dayOfWeek \notin DOMAIN oh THEN DateThrew
          ELSE LET daySchedule == oh[dayOfWeek]
               IN IF IsCandidate(daySchedule)
                    THEN IF ~IsString(daySchedule.open) THEN DateThrew
                         ELSE LET openingTime == OpeningTime(checkDate, daySchedule.open)
                              IN IF SkipToday(i, openingTime, startDate)
                                   THEN ScanFrom(oh, startDate, i + 1)
                                   ELSE ADate(openingTime)
                    ELSE ScanFrom(oh, startDate, i + 1)

\* OperatingHoursUtils.getNextOpeningTime
getNextOpeningTime(oh, fromDateTime) == ScanFrom(oh, fromDateTime, 0)

(***************************************************************************)
(* validateOperatingHours                                                  *)
(***************************************************************************)
MissingError(day) == "Missing schedule for " \o day

OpeningFormatError(dayName) == dayName \o ": Invalid opening time format. Use HH:MM (24-hour format)"

ClosingFormatError(dayName) == dayName \o ": Invalid closing time format. Use HH:MM (24-hour format)"

SameTimesError(dayName) == dayName \o ": Opening and closing times cannot be the same"

\* what validateDaySchedule does when timeToMinutes is handed a value
\* without split
DayThrew == [threw |-> TRUE, errors |-> <<>>]

DayReturned(errors) == [threw |-> FALSE, errors |-> errors]

\* the two format checks of validateDaySchedule
FormatErrors(daySchedule, dayName) ==
  (IF ~isValidTimeFormat(daySchedule.open) THEN <<OpeningFormatError(dayName)>> ELSE <<>>)
  \o (IF ~isValidTimeFormat(daySchedule.close) THEN <<ClosingFormatError(dayName)>> ELSE <<>>)

\* SameTime comparing the two strings
SameTime_ByString(open, close) == open = close

\* openMinutes === closeMinutes
SameTime(open, close) == timeToMinutes(open) = timeToMinutes(close)

\* the equal-times check of validateDaySchedule, entered when both times
\* pass the format test
EqualityCheck(daySchedule, dayName) ==
  IF ~IsString(daySchedule.open) \/ ~IsString(daySchedule.close) THEN DayThrew
  ELSE DayReturned(FormatErrors(daySchedule, dayName)
                     \o (IF SameTime(daySchedule.open, daySchedule.close)
                           THEN <<SameTimesError(dayName)>> ELSE <<>>))

\* validateDaySchedule without the early return for a closed day
validateDaySchedule_NoClosedReturn(daySchedule, dayName) ==
  IF isValidTimeFormat(daySchedule.open) /\ isValidTimeFormat(daySchedule.close)
    THEN EqualityCheck(daySchedule, dayName)
    ELSE DayReturned(FormatErrors(daySchedule, dayName))

\* OperatingHoursUtils.validateDaySchedule
validateDaySchedule(daySchedule, dayName) ==
  IF daySchedule.closed THEN DayReturned(<<>>)
  ELSE IF isValidTimeFormat(daySchedule.open) /\ isValidTimeFormat(daySchedule.close)
    THEN EqualityCheck(daySchedule, dayName)
    ELSE DayReturned(FormatErrors(daySchedule, dayName))

\* DayErrors without the continue: a missing day is also validated as an
\* entry with no fields
DayErrors_NoContinue(oh, day) ==
  IF day \notin DOMAIN oh
    THEN DayReturned(<<MissingError(day)>>
           \o validateDaySchedule([open |-> Undefined, close |-> Undefined, closed |-> FALSE], day).errors)
  ELSE validateDaySchedule(oh[day], day)

\* what one iteration of the loop of validateOperatingHours pushes
DayErrors(oh, day) ==
  IF day \notin DOMAIN oh THEN DayReturned(<<MissingError(day)>>)
  ELSE validateDaySchedule(oh[day], day)

\* the loop of validateOperatingHours from the n-th day on
RECURSIVE ErrorsFrom(_, _)
ErrorsFrom(oh, n) ==
  IF n > Len(DAYS) THEN DayReturned(<<>>)
  ELSE LET first == DayErrors(oh, DAYS[n])
       IN IF first.threw THEN DayThrew
          ELSE LET rest == ErrorsFrom(oh, n + 1)
               IN IF rest.threw THEN DayThrew ELSE DayReturned(first.errors \o rest.errors)

\* OperatingHoursUtils.validateOperatingHours
validateOperatingHours(oh) ==
  LET r == ErrorsFrom(oh, 1)
  IN [threw |-> r.threw, isValid |-> ~r.threw /\ Len(r.errors) = 0, errors |-> r.errors]

(***************************************************************************)
(* Explored inputs.                                                        *)
(***************************************************************************)
\* "09:00", "22:00", "02:00", "10:00", "23:30"
TimeSamples ==
  << <<"0", "9", ":", "0", "0">>, <<"2", "2", ":", "0", "0">>, <<"0", "2", ":", "0", "0">>,
     <<"1", "0", ":", "0", "0">>, <<"2", "3", ":", "3", "0">> >>

Times == {TimeSamples[i] : i \in 1..NumTimes}

\* times of day in milliseconds: 01:00:00.000, 23:00:00.000, 09:00:00.000,
\* 08:59:59.999, 22:00:30.500, 22:01:00.000, 02:00:00.001, 00:00:00.000
ClockSamples == <<3600000, 82800000, 32400000, 32399999, 79230500, 79260000, 7200001, 0>>

Clocks == {ClockSamples[i] : i \in 1..NumClocks}

\* "09:00", "9:00", "22:00", "24:00", "9:5", a missing field, "12:60", "", "1:2:3"
FormatSamples ==
  << <<"0", "9", ":", "0", "0">>, <<"9", ":", "0", "0">>, <<"2", "2", ":", "0", "0">>,
     <<"2", "4", ":", "0", "0">>, <<"9", ":", "5">>, Undefined, <<"1", "2", ":", "6", "0">>,
     <<>>, <<"1", ":", "2", ":", "3">> >>

Formats == {FormatSamples[i] : i \in 1..NumFormats}

\* the instants a call is made at: every weekday of the first week of 1970
Instants == {d * MsPerDay + c : d \in 0..6, c \in Clocks}

DayEntries == [open : Times, close : Times, closed : BOOLEAN]

RawEntries == [open : Formats, close : Formats, closed : BOOLEAN]

\* the entry of the days that do not vary: closed all day, or open overnight
RestEntry(restClosed) ==
  [open |-> <<"2", "2", ":", "0", "0">>, close |-> <<"0", "2", ":", "0", "0">>,
   closed |-> restClosed]

\* a complete schedule: free entries on the weekday numbered s and on the
\* next one, and one same entry on the five others
QuerySchedules(s) ==
  {[d \in DaySet |-> IF d = dayNames[(s % 7) + 1] THEN today
                     ELSE IF d = dayNames[((s + 1) % 7) + 1] THEN tomorrow
                     ELSE RestEntry(restClosed)] :
     today \in DayEntries, tomorrow \in DayEntries, restClosed \in BOOLEAN}

\* a request's schedule: any set of days absent, one day with raw field
\* values, the others as the default
RawSchedules ==
  {[d \in present |-> IF d = v THEN e ELSE DEFAULT_OPERATING_HOURS[d]] :
     present \in SUBSET DaySet, v \in DaySet, e \in RawEntries}

\* the open and close values a JSON body can carry: the strings and the
\* missing field above, and arrays holding "09:00" or "22:00"
JsonValues ==
  Formats \cup {ArrayOf(<<"0", "9", ":", "0", "0">>), ArrayOf(<<"2", "2", ":", "0", "0">>)}

\* a schedule as an untyped request body supplies it: at most one day
\* absent, one day with any JSON field values, the others as the default
JsonSchedules ==
  {[d \in present |-> IF d = v THEN e ELSE DEFAULT_OPERATING_HOURS[d]] :
     present \in {DaySet} \cup {DaySet \ {d} : d \in DaySet}, v \in DaySet,
     e \in [open : JsonValues, close : JsonValues, closed : BOOLEAN]}

NoCall == [op |-> "none"]

\* no sanitize argument
NoInput == [isNull |-> TRUE, days |-> <<>>]

\* the heap, the table and the requests of a bare engine call
Idle ==
  /\ input = NoInput
  /\ schedules = <<>>
  /\ entries = <<>>
  /\ dates = <<>>
  /\ store = <<>>
  /\ pending = <<>>

\* a bare engine call on a structurally complete schedule
Init ==
  /\ dateTime \in Instants
  /\ operatingHours \in QuerySchedules(getDay(dateTime))
  /\ result = NoCall
  /\ Idle

\* an engine call on a schedule as a request supplies it
InitRaw ==
  /\ dateTime = ClockSamples[1]
  /\ operatingHours \in RawSchedules
  /\ result = NoCall
  /\ Idle

\* an engine call on a schedule taken from an untyped request body
InitJson ==
  /\ dateTime = ClockSamples[1]
  /\ operatingHours \in JsonSchedules
  /\ result = NoCall
  /\ Idle

(***************************************************************************)
(* Operations.                                                             *)
(***************************************************************************)
IsOpenAt ==
  /\ result.op = "none"
  /\ LET r == isOpenAt(operatingHours, dateTime)
     IN result' = [op |-> "isOpenAt", threw |-> r.threw, value |-> r.value]
  /\ UNCHANGED <<operatingHours, dateTime, input, heapVars, storeVars>>

GetNextOpeningTime ==
  /\ result.op = "none"
  /\ LET r == getNextOpeningTime(operatingHours, dateTime)
     IN result' = [op |-> "getNextOpeningTime", threw |-> r.threw,
                   isNull |-> r.isNull, time |-> r.time]
  /\ UNCHANGED <<operatingHours, dateTime, input, heapVars, storeVars>>

ValidateOperatingHours ==
  /\ result.op = "none"
  /\ LET r == validateOperatingHours(operatingHours)
     IN result' = [op |-> "validateOperatingHours", threw |-> r.threw,
                   isValid |-> r.isValid, errors |-> r.errors]
  /\ UNCHANGED <<operatingHours, dateTime, input, heapVars, storeVars>>

Next == IsOpenAt \/ GetNextOpeningTime \/ ValidateOperatingHours

Spec == Init /\ [][Next]_vars

SpecRaw == InitRaw /\ [][Next]_vars

SpecJson == InitJson /\ [][Next]_vars

(***************************************************************************)
(* Vocabulary of the properties.                                           *)
(***************************************************************************)
\* the weekdays of 1970-01-01 .. 1970-01-07 by the calendar
FirstWeek == <<"thursday", "friday", "saturday", "sunday", "monday", "tuesday", "wednesday">>

CalendarWeekday(t) == FirstWeek[((t \div MsPerDay) % 7) + 1]

\* the minute of the day a well-formed five-character "HH:MM" denotes
MinuteOfDay(hhmm) ==
  (10 * DigitValue(hhmm[1]) + DigitValue(hhmm[2])) * 60
    + 10 * DigitValue(hhmm[4]) + DigitValue(hhmm[5])

\* the minute of the day of an instant, its seconds dropped
ClockMinute(t) == (t % MsPerDay) \div MsPerMinute

T0900 == <<"0", "9", ":", "0", "0">>

T2200 == <<"2", "2", ":", "0", "0">>

T0200 == <<"0", "2", ":", "0", "0">>

\* the entry of the weekday the call's instant falls on
Today == operatingHours[CalendarWeekday(dateTime)]

\* the entry of the weekday before the call's instant
Yesterday == operatingHours[CalendarWeekday(dateTime + 6 * MsPerDay)]

IsOpenAtReturned == result.op = "isOpenAt" /\ ~result.threw

(***************************************************************************)
(* C1: on an instant whose own weekday entry is closed, isOpenAt returns   *)
(* false, whatever the entry's open and close values and whatever the      *)
(* previous day's window.                                                  *)
(***************************************************************************)
C1_ClosedDayIsNeverOpen ==
  (result.op = "isOpenAt" /\ Today.closed) => (~result.threw /\ result.value = FALSE)

\* a closed day answered false at a time inside the spill-over of the
\* previous day's overnight window and inside its own stale times
C1_Witness ==
  /\ IsOpenAtReturned
  /\ Today.closed
  /\ result.value = FALSE
  /\ ~Yesterday.closed
  /\ MinuteOfDay(Yesterday.close) < MinuteOfDay(Yesterday.open)
  /\ ClockMinute(dateTime) <= MinuteOfDay(Yesterday.close)
  /\ MinuteOfDay(Today.open) > MinuteOfDay(Today.close)
  /\ ClockMinute(dateTime) <= MinuteOfDay(Today.close)

(***************************************************************************)
(* C2: for a non-closed entry with open < close, isOpenAt is true exactly  *)
(* when open <= hour*60+minute <= close, both ends inclusive, seconds      *)
(* ignored: 09:00-22:00 is open at 09:00:00 and 22:00:30, closed at        *)
(* 08:59:59 and 22:01:00.                                                  *)
(***************************************************************************)
C2_SameDayWindowInclusive ==
  (result.op = "isOpenAt" /\ ~Today.closed /\ MinuteOfDay(Today.open) < MinuteOfDay(Today.close))
    => /\ ~result.threw
       /\ result.value = (/\ MinuteOfDay(Today.open) <= ClockMinute(dateTime)
                          /\ ClockMinute(dateTime) <= MinuteOfDay(Today.close))
       /\ (Today.open = T0900 /\ Today.close = T2200)
            => /\ (dateTime % MsPerDay) \in {32400000, 79230500} => result.value = TRUE
               /\ (dateTime % MsPerDay) \in {32399999, 79260000} => result.value = FALSE

\* 09:00-22:00 asked at 22:00:30.500 answers true
C2_Witness ==
  /\ IsOpenAtReturned
  /\ ~Today.closed
  /\ Today.open = T0900
  /\ Today.close = T2200
  /\ dateTime % MsPerDay = 79230500
  /\ result.value = TRUE

(***************************************************************************)
(* C3: for a non-closed entry with open >= close, isOpenAt is true exactly *)
(* when the instant's minute is >= open or <= close of that same entry;    *)
(* with equal times it is true at every time of day.                       *)
(***************************************************************************)
C3_OvernightWindowOfSameEntry ==
  (result.op = "isOpenAt" /\ ~Today.closed /\ MinuteOfDay(Today.open) >= MinuteOfDay(Today.close))
    => /\ ~result.threw
       /\ result.value = (\/ ClockMinute(dateTime) >= MinuteOfDay(Today.open)
                          \/ ClockMinute(dateTime) <= MinuteOfDay(Today.close))
       /\ Today.open = Today.close => result.value = TRUE

\* equal times answered true at a minute different from the common one
C3_Witness ==
  /\ IsOpenAtReturned
  /\ ~Today.closed
  /\ Today.open = Today.close
  /\ ClockMinute(dateTime) > MinuteOfDay(Today.open)
  /\ result.value = TRUE

\* Friday 1970-01-02 at 23:00 and Saturday 1970-01-03 at 01:00
Friday2300 == 1 * MsPerDay + 23 * MsPerHour

Saturday0100 == 2 * MsPerDay + 1 * MsPerHour

(***************************************************************************)
(* C4: a non-closed window whose close is earlier than its open spans      *)
(* into the next calendar day: with Friday 22:00-02:00 and Saturday not    *)
(* closed, isOpenAt is true at Friday 23:00 and at Saturday 01:00,         *)
(* whatever Saturday's own times are.                                      *)
(***************************************************************************)
C4_OvernightWindowSpansNextDay ==
  (/\ result.op = "isOpenAt"
   /\ ~operatingHours["friday"].closed
   /\ operatingHours["friday"].open = T2200
   /\ operatingHours["friday"].close = T0200
   /\ ~operatingHours["saturday"].closed
   /\ dateTime \in {Friday2300, Saturday0100})
    => (~result.threw /\ result.value = TRUE)

GetNextReturned == result.op = "getNextOpeningTime" /\ ~result.threw

AllClosed == \A d \in DaySet : operatingHours[d].closed

(***************************************************************************)
(* C5: getNextOpeningTime returns null for every fromInstant when all      *)
(* seven days are closed.                                                  *)
(***************************************************************************)
C5_AllClosedGivesNull ==
  (result.op = "getNextOpeningTime" /\ AllClosed) => (~result.threw /\ result.isNull)

\* a schedule closed all week, with differing stale times, answered null
C5_Witness ==
  /\ GetNextReturned
  /\ AllClosed
  /\ result.isNull
  /\ Today.open # Today.close

(***************************************************************************)
(* C6: getNextOpeningTime returns null only when the schedule is closed    *)
(* every day: with at least one day not closed it returns an instant.      *)
(***************************************************************************)
C6_NullOnlyWhenAllClosed ==
  (result.op = "getNextOpeningTime" /\ ~AllClosed) => (~result.threw /\ ~result.isNull)

\* midnight of the calendar day of an instant
StartOfDay(t) == t - (t % MsPerDay)

\* the entry of the weekday k days after the call's instant
EntryAt(k) == operatingHours[CalendarWeekday(dateTime + k * MsPerDay)]

\* the opening instant of the day k days after the call's instant
OpeningInstant(k) ==
  StartOfDay(dateTime) + k * MsPerDay + MinuteOfDay(EntryAt(k).open) * MsPerMinute

\* day offset k qualifies: not closed and, today, opening strictly later
Qualifies(k) == ~EntryAt(k).closed /\ (k = 0 => OpeningInstant(k) > dateTime)

\* the schedule with every close time replaced by c
WithClose(oh, c) == [d \in DOMAIN oh |-> [oh[d] EXCEPT !.close = c]]

\* Monday 09:00-22:00, Tuesday 08:00-20:00, the rest as the default
MondayTuesdayExample ==
  [DEFAULT_OPERATING_HOURS EXCEPT
     !["tuesday"] = [open |-> <<"0", "8", ":", "0", "0">>,
                     close |-> <<"2", "0", ":", "0", "0">>, closed |-> FALSE]]

(***************************************************************************)
(* C7: getNextOpeningTime returns the opening instant (the day's open      *)
(* hour:minute, seconds and milliseconds zero) of the smallest day offset  *)
(* k in 0..6 whose weekday is not closed and, for k = 0, whose opening     *)
(* instant is strictly after fromInstant; asked at Monday 23:00 with       *)
(* Monday 09:00-22:00 and Tuesday 08:00-20:00 it returns Tuesday 08:00.    *)
(* The close times do not change the result.                               *)
(***************************************************************************)
C7_FirstQualifyingDayWins ==
  /\ result.op = "getNextOpeningTime"
       => /\ ~result.threw
          /\ IF \E k \in 0..6 : Qualifies(k)
               THEN LET k == CHOOSE j \in 0..6 : Qualifies(j) /\ \A i \in 0..(j - 1) : ~Qualifies(i)
                    IN ~result.isNull /\ result.time = OpeningInstant(k)
               ELSE result.isNull
          /\ \A c \in Times :
               getNextOpeningTime(WithClose(operatingHours, c), dateTime)
                 = [threw |-> result.threw, isNull |-> result.isNull, time |-> result.time]
  /\ getNextOpeningTime(MondayTuesdayExample, 4 * MsPerDay + 23 * MsPerHour)
       = ADate(5 * MsPerDay + 8 * MsPerHour)

\* today is open but its opening is exactly the asked instant, tomorrow is
\* closed, and the answer is the opening two days later
C7_Witness ==
  /\ GetNextReturned
  /\ ~EntryAt(0).closed
  /\ OpeningInstant(0) = dateTime
  /\ EntryAt(1).closed
  /\ ~result.isNull
  /\ result.time = OpeningInstant(2)

\* the instants probed between a call and its answer
ProbeInstants == {d * MsPerDay + c : d \in 0..13, c \in Clocks}

(***************************************************************************)
(* C8: whenever isOpenAt(schedule, from) is false and                      *)
(* getNextOpeningTime(schedule, from) returns T, there is no instant       *)
(* strictly between from and T at which isOpenAt(schedule, .) is true.     *)
(***************************************************************************)
C8_NothingOpenBeforeNextOpening ==
  (/\ GetNextReturned
   /\ ~result.isNull
   /\ isOpenAt(operatingHours, dateTime) = Returned(FALSE))
    => \A x \in ProbeInstants :
         (dateTime < x /\ x < result.time) => isOpenAt(operatingHours, x) # Returned(TRUE)

\* how many times the message occurs in the error list
Occurrences(errors, message) == Cardinality({i \in 1..Len(errors) : errors[i] = message})

\* the opening-time, closing-time and equal-times messages of a day
TimeErrorsOf(day) == {OpeningFormatError(day), ClosingFormatError(day), SameTimesError(day)}

Validated == result.op = "validateOperatingHours"

(***************************************************************************)
(* C9: for each canonical day absent from the input, validate reports      *)
(* exactly one error "Missing schedule for <day>" and no opening-time,     *)
(* closing-time or equal-times error for that day.                         *)
(***************************************************************************)
C9_MissingDayReportedOnce ==
  Validated =>
    \A day \in DaySet \ DOMAIN operatingHours :
      /\ Occurrences(result.errors, MissingError(day)) = 1
      /\ \A m \in TimeErrorsOf(day) : Occurrences(result.errors, m) = 0

\* friday absent, reported once, next to another day's error
C9_Witness ==
  /\ Validated
  /\ "friday" \notin DOMAIN operatingHours
  /\ Occurrences(result.errors, "Missing schedule for friday") = 1
  /\ Len(result.errors) > 1
  /\ ~result.isValid

(***************************************************************************)
(* C10: a present day with closed = true never contributes an error to     *)
(* validate, whatever its open and close values are (malformed, equal or   *)
(* missing).                                                               *)
(***************************************************************************)
C10_ClosedDayContributesNoError ==
  Validated =>
    \A day \in DOMAIN operatingHours :
      operatingHours[day].closed =>
        \A m \in TimeErrorsOf(day) \cup {MissingError(day)} : Occurrences(result.errors, m) = 0

\* a complete schedule whose closed day has a missing open and a malformed
\* close is valid
C10_Witness ==
  /\ Validated
  /\ DOMAIN operatingHours = DaySet
  /\ \E day \in DaySet :
       /\ operatingHours[day].closed
       /\ operatingHours[day].open = Undefined
       /\ operatingHours[day].close = <<"2", "4", ":", "0", "0">>
  /\ result.isValid
  /\ result.errors = <<>>

\* position of the colon of a string of the shape H:MM or HH:MM
ColonAt(v) == Len(v) - 2

\* v is a string of one or two digits, a colon and two digits
HasTimeShape(v) ==
  /\ IsString(v)
  /\ Len(v) \in {4, 5}
  /\ \A i \in 1..Len(v) : IF i = ColonAt(v) THEN v[i] = ":" ELSE v[i] \in DigitSet

HourOf(v) == IF Len(v) = 4 THEN DigitValue(v[1]) ELSE 10 * DigitValue(v[1]) + DigitValue(v[2])

MinuteOf(v) == 10 * DigitValue(v[Len(v) - 1]) + DigitValue(v[Len(v)])

\* v denotes a time of day: hour 0..23 in one or two digits, minute 00..59
WellFormedTime(v) == HasTimeShape(v) /\ HourOf(v) \in 0..23 /\ MinuteOf(v) \in 0..59

\* two well-formed times denote the same hour and minute
SameHourMinute(a, b) == HourOf(a) = HourOf(b) /\ MinuteOf(a) = MinuteOf(b)

Indicator(b) == IF b THEN 1 ELSE 0

(***************************************************************************)
(* C11: for a non-closed day validate reports "<day>: Opening and closing  *)
(* times cannot be the same" exactly when both times match the pattern and *)
(* denote the same hour and minute ("9:00" equals "09:00"); when either    *)
(* time is malformed only the format errors are reported.                  *)
(***************************************************************************)
C11_EqualTimesReportedWhenBothParse ==
  Validated =>
    \A day \in DOMAIN operatingHours :
      LET e == operatingHours[day]
          bothParse == WellFormedTime(e.open) /\ WellFormedTime(e.close)
      IN ~e.closed =>
           /\ Occurrences(result.errors, SameTimesError(day))
                = Indicator(bothParse /\ SameHourMinute(e.open, e.close))
           /\ ~bothParse =>
                /\ Occurrences(result.errors, OpeningFormatError(day))
                     = Indicator(~WellFormedTime(e.open))
                /\ Occurrences(result.errors, ClosingFormatError(day))
                     = Indicator(~WellFormedTime(e.close))

\* "9:00" to "09:00" on an open day is reported as equal times
C11_Witness ==
  /\ Validated
  /\ \E day \in DOMAIN operatingHours :
       /\ ~operatingHours[day].closed
       /\ operatingHours[day].open = <<"9", ":", "0", "0">>
       /\ operatingHours[day].close = <<"0", "9", ":", "0", "0">>
       /\ Occurrences(result.errors, SameTimesError(day)) = 1

\* the position of a message in the order monday..sunday and, within a
\* day, missing, opening, closing, equal times
Rank(message) ==
  CHOOSE r \in 1..28 :
    LET day == DAYS[((r - 1) \div 4) + 1]
        kind == (r - 1) % 4
    IN message = IF kind = 0 THEN MissingError(day)
                 ELSE IF kind = 1 THEN OpeningFormatError(day)
                 ELSE IF kind = 2 THEN ClosingFormatError(day)
                 ELSE SameTimesError(day)

DayRank(message) == (Rank(message) - 1) \div 4

(***************************************************************************)
(* C12: validate never raises, whatever days are present and whatever the  *)
(* field values; its errors are ordered monday to sunday and, within a     *)
(* day, opening before closing, at most two per day; isValid is true       *)
(* exactly when the list is empty.                                         *)
(***************************************************************************)
C12_ValidateIsTotalAndOrdered ==
  result.op = "validateOperatingHours" =>
    /\ ~result.threw
    /\ \A i, j \in 1..Len(result.errors) :
         i < j => Rank(result.errors[i]) < Rank(result.errors[j])
    /\ \A n \in 0..6 :
         Cardinality({i \in 1..Len(result.errors) : DayRank(result.errors[i]) = n}) <= 2
    /\ result.isValid = (result.errors = <<>>)

\* the schedule satisfies the invariant of the data model
DataModelInvariant(oh) ==
  /\ DOMAIN oh = DaySet
  /\ \A day \in DaySet :
       ~oh[day].closed =>
         /\ WellFormedTime(oh[day].open)
         /\ WellFormedTime(oh[day].close)
         /\ ~SameHourMinute(oh[day].open, oh[day].close)

Rejected24 == <<"2", "4", ":", "0", "0">>

Rejected1260 == <<"1", "2", ":", "6", "0">>

Rejected95 == <<"9", ":", "5">>

-----------------------------------------------------------------------------
\* sanitizeOperatingHours and getDefaultOperatingHours, by value

\* Bound: how many of FieldSamples a sanitize input draws its times from.
NumFields == 5

\* The values of a closed property in a request body: the booleans, an absent
\* property and a non-empty string.
ClosedValues == {"true", "false", "undefined", "string"}

\* Boolean(x) of a closed property
Boolean_Negated(closed) == closed \notin {"true", "string"}

Boolean(closed) == closed \in {"true", "string"}

\* JS truthiness of an open or close property: undefined and '' are falsy,
\* every other string and every array is truthy
Truthy(v) == v # Undefined /\ v # <<>>

\* a ?? b, which falls back for undefined only
Or_Nullish(a, b) == IF a # Undefined THEN a ELSE b

\* a || b
Or(a, b) == IF Truthy(a) THEN a ELSE b

\* JSON.parse(JSON.stringify(oh)) of a schedule of strings and booleans: the
\* same days and the same fields, in objects of its own (identity is followed
\* in the heap section)
JsonClone(oh) ==
  [day \in DOMAIN oh |->
     [open |-> oh[day].open, close |-> oh[day].close,
      closed |-> oh[day].closed]]

getDefaultOperatingHours == JsonClone(DEFAULT_OPERATING_HOURS)

\* the entry the loop body assigns to result[day]
SanitizedEntry(dayInput, current) ==
  [open |-> Or(dayInput.open, current.open),
   close |-> Or(dayInput.close, current.close),
   closed |-> Boolean(dayInput.closed)]

SanitizeThrew == [threw |-> TRUE, value |-> <<>>]

sanitizeOperatingHours_FromEmpty(in) ==
  IF in.isNull THEN SanitizeThrew
  ELSE [threw |-> FALSE,
        value |-> [day \in DOMAIN in.days |->
                     SanitizedEntry(in.days[day],
                                    getDefaultOperatingHours[day])]]

\* input[day] of null or undefined is a TypeError; a day whose value is
\* falsy is a day outside DOMAIN in.days
sanitizeOperatingHours(in) ==
  IF in.isNull THEN SanitizeThrew
  ELSE [threw |-> FALSE,
        value |-> [day \in DaySet |->
                     IF day \in DOMAIN in.days
                     THEN SanitizedEntry(in.days[day],
                                         getDefaultOperatingHours[day])
                     ELSE getDefaultOperatingHours[day]]]

\* a schedule of the engine handed back as a request body
AsInput(oh) ==
  [isNull |-> FALSE,
   days |-> [day \in DOMAIN oh |->
               [open |-> oh[day].open, close |-> oh[day].close,
                closed |-> IF oh[day].closed THEN "true" ELSE "false"]]]

FieldSamples ==
  << <<"2", "3", ":", "3", "0">>,
     <<>>,
     Undefined,
     <<"9", ":", "5">>,
     ArrayOf(<<"0", "9", ":", "0", "0">>),
     <<"2", "4", ":", "0", "0">>,
     <<"0", "9", ":", "0", "0">> >>

Fields == {FieldSamples[i] : i \in 1..NumFields}

InputEntries == [open : Fields, close : Fields, closed : ClosedValues]

\* the entry of the days of an input that are not the varied one
OtherInputEntry ==
  [open |-> <<"2", "2", ":", "0", "0">>,
   close |-> <<"0", "2", ":", "0", "0">>,
   closed |-> "true"]

\* the day sets of an input: at most one day present or at most one absent
PresentSets ==
  {S \in SUBSET DaySet : Cardinality(S) <= 1 \/ Cardinality(S) >= 6}

SanitizeInputs ==
  {NoInput, [isNull |-> FALSE, days |-> <<>>]}
  \cup
  {[isNull |-> FALSE,
    days |-> [day \in S |-> IF day = v THEN e ELSE OtherInputEntry]] :
       <<S, v, e>> \in {t \in PresentSets \X DaySet \X InputEntries :
                          t[2] \in t[1]}}

InitSanitize ==
  /\ input \in SanitizeInputs
  /\ operatingHours = DEFAULT_OPERATING_HOURS
  /\ dateTime = ClockSamples[1]
  /\ result = NoCall
  /\ schedules = <<>>
  /\ entries = <<>>
  /\ dates = <<>>
  /\ store = <<>>
  /\ pending = <<>>

SanitizeOperatingHours ==
  /\ result.op = "none"
  /\ LET r == sanitizeOperatingHours(input)
     IN result' = [op |-> "sanitizeOperatingHours",
                   threw |-> r.threw, value |-> r.value]
  /\ UNCHANGED <<operatingHours, dateTime, input, heapVars, storeVars>>

GetDefaultOperatingHours ==
  /\ result.op = "none"
  /\ result' = [op |-> "getDefaultOperatingHours",
                threw |-> FALSE, value |-> getDefaultOperatingHours]
  /\ UNCHANGED <<operatingHours, dateTime, input, heapVars, storeVars>>

NextSanitize == SanitizeOperatingHours \/ GetDefaultOperatingHours

SpecSanitize == InitSanitize /\ [][NextSanitize]_vars

Sanitized == result.op = "sanitizeOperatingHours"

\* C15: sanitizing the schedule a sanitize call returned gives that schedule
\* again.
C15_SanitizeIsIdempotent ==
  (Sanitized /\ ~result.threw) =>
     LET again == sanitizeOperatingHours(AsInput(result.value))
     IN /\ ~again.threw
        /\ again.value = result.value

\* a call that replaced a falsy time and coerced a non-boolean closed value
C15_Witness ==
  /\ Sanitized
  /\ ~result.threw
  /\ \E day \in DOMAIN input.days :
       /\ ~Truthy(input.days[day].open)
       /\ input.days[day].closed = "string"
       /\ result.value[day].closed

\* C16: a day without an input entry keeps the default entry; a day with one
\* takes each truthy time from the input and each falsy one from the default,
\* and its closed flag is the boolean coercion of the input's.
C16_PerDayOverlay ==
  (Sanitized /\ ~result.threw) =>
     \A day \in DaySet :
        LET out == result.value[day]
            def == DEFAULT_OPERATING_HOURS[day]
        IN IF day \notin DOMAIN input.days
           THEN out = def
           ELSE LET in == input.days[day]
                IN /\ out.open = (IF in.open \in {Undefined, <<>>}
                                  THEN def.open ELSE in.open)
                   /\ out.close = (IF in.close \in {Undefined, <<>>}
                                   THEN def.close ELSE in.close)
                   /\ out.closed = (in.closed \in {"true", "string"})

\* an input entry with an empty opening time and a closing time of its own,
\* next to a day the input does not mention
C16_Witness ==
  /\ Sanitized
  /\ ~result.threw
  /\ DOMAIN input.days # DaySet
  /\ \E day \in DOMAIN input.days :
       /\ input.days[day].open = <<>>
       /\ input.days[day].close = <<"2", "3", ":", "3", "0">>
       /\ input.days[day].closed = "undefined"
       /\ result.value[day].open = DEFAULT_OPERATING_HOURS[day].open

\* C17: sanitize returns for every partial input, its result has all seven
\* days, truthy malformed times pass through unchanged, and validating the
\* result reports no missing day.
C17_SanitizeIsTotalAndComplete ==
  (Sanitized /\ ~input.isNull) =>
     /\ ~result.threw
     /\ DOMAIN result.value = DaySet
     /\ \A day \in DOMAIN input.days :
          LET in == input.days[day]
          IN /\ (Truthy(in.open) /\ ~isValidTimeFormat(in.open))
                  => result.value[day].open = in.open
             /\ (Truthy(in.close) /\ ~isValidTimeFormat(in.close))
                  => result.value[day].close = in.close
     /\ \A day \in DaySet :
          Occurrences(validateOperatingHours(result.value).errors,
                      MissingError(day)) = 0

\* a one-day input with a malformed opening time
C17_Witness ==
  /\ Sanitized
  /\ Cardinality(DOMAIN input.days) = 1
  /\ \E day \in DOMAIN input.days :
       /\ input.days[day].open = <<"9", ":", "5">>
       /\ result.value[day].open = <<"9", ":", "5">>
       /\ ~validateOperatingHours(result.value).isValid

-----------------------------------------------------------------------------
\* getDefaultOperatingHours and sanitizeOperatingHours, by reference

\* Bound: how many calls hand a schedule object to a caller.
MaxCalls == 2

\* the day whose entry the callers write to
MutatedDay == "monday"

\* the values a caller writes into a schedule it was handed
ScribbleEntry ==
  [open |-> <<"0", "0", ":", "0", "0">>,
   close |-> <<"0", "0", ":", "0", "1">>,
   closed |-> TRUE]

\* the position of a day in DAYS
IndexOf(day) == CHOOSE i \in 1..Len(DAYS) : DAYS[i] = day

\* the reference of the module constant DEFAULT_OPERATING_HOURS
DefaultRef == 1

\* the schedule value behind a reference
Deref(S, E, ref) == [day \in DaySet |-> E[S[ref][day]]]

\* the entry objects a schedule object points to
EntriesOf(S, ref) == {S[ref][day] : day \in DaySet}

Heap(S, E, ref) == [schedules |-> S, entries |-> E, ref |-> ref]

\* { ...DEFAULT_OPERATING_HOURS }: a schedule object of its own over the
\* default's entry objects
HeapDefault_Shallow(S, E) == Heap(Append(S, S[DefaultRef]), E, Len(S) + 1)

\* JSON.parse(JSON.stringify(DEFAULT_OPERATING_HOURS)): the text is written
\* from the default's current fields and parsed into one new schedule object
\* and seven new entry objects
HeapDefault(S, E) ==
  Heap(Append(S, [day \in DaySet |-> Len(E) + IndexOf(day)]),
       E \o [i \in 1..Len(DAYS) |-> E[S[DefaultRef][DAYS[i]]]],
       Len(S) + 1)

RECURSIVE SanitizeLoop(_, _, _)

\* the for loop of sanitizeOperatingHours from the n-th day on: result[day]
\* is assigned a new entry object for every day the input has
SanitizeLoop(h, in, n) ==
  IF n > Len(DAYS) THEN h
  ELSE LET day == DAYS[n]
       IN IF day \in DOMAIN in.days
          THEN SanitizeLoop(
                 Heap([h.schedules EXCEPT
                         ![h.ref][day] = Len(h.entries) + 1],
                      Append(h.entries,
                             SanitizedEntry(in.days[day],
                                            h.entries[h.schedules[h.ref][day]])),
                      h.ref),
                 in, n + 1)
          ELSE SanitizeLoop(h, in, n + 1)

HeapSanitize(S, E, in) == SanitizeLoop(HeapDefault(S, E), in, 1)

EmptyInput == [isNull |-> FALSE, days |-> <<>>]

MondayInput ==
  [isNull |-> FALSE,
   days |-> [day \in {MutatedDay} |->
               [open |-> <<"2", "3", ":", "3", "0">>,
                close |-> Undefined,
                closed |-> "string"]]]

HeapInputs == {EmptyInput, MondayInput}

\* the schedules handed to callers so far
HandedOut == (DefaultRef + 1)..Len(schedules)

InitHeap ==
  /\ schedules = << [day \in DaySet |-> IndexOf(day)] >>
  /\ entries = [i \in 1..Len(DAYS) |-> DEFAULT_OPERATING_HOURS[DAYS[i]]]
  /\ dates = <<>>
  /\ input = NoInput
  /\ result = NoCall
  /\ operatingHours = DEFAULT_OPERATING_HOURS
  /\ dateTime = ClockSamples[1]
  /\ store = <<>>
  /\ pending = <<>>

CallGetDefaultOperatingHours ==
  /\ Len(schedules) <= MaxCalls
  /\ LET h == HeapDefault(schedules, entries)
     IN /\ schedules' = h.schedules
        /\ entries' = h.entries
        /\ result' = [op |-> "getDefaultOperatingHours", ref |-> h.ref]
  /\ input' = NoInput
  /\ UNCHANGED <<operatingHours, dateTime, dates, storeVars>>

CallSanitizeOperatingHours ==
  /\ Len(schedules) <= MaxCalls
  /\ \E in \in HeapInputs :
       LET h == HeapSanitize(schedules, entries, in)
       IN /\ schedules' = h.schedules
          /\ entries' = h.entries
          /\ result' = [op |-> "sanitizeOperatingHours", ref |-> h.ref]
          /\ input' = in
  /\ UNCHANGED <<operatingHours, dateTime, dates, storeVars>>

\* a caller writes one property of an entry of a schedule it was handed
MutateField ==
  /\ \E ref \in HandedOut, field \in {"open", "close", "closed"} :
       LET e == schedules[ref][MutatedDay]
       IN /\ entries[e][field] # ScribbleEntry[field]
          /\ entries' = [entries EXCEPT ![e][field] = ScribbleEntry[field]]
          /\ result' = [op |-> "mutate", ref |-> ref]
  /\ UNCHANGED <<operatingHours, dateTime, input, schedules, dates, storeVars>>

\* a caller assigns a new entry object to a day of a schedule it was handed
ReplaceEntry ==
  /\ \E ref \in HandedOut :
       /\ entries[schedules[ref][MutatedDay]] # ScribbleEntry
       /\ schedules' = [schedules EXCEPT
                          ![ref][MutatedDay] = Len(entries) + 1]
       /\ entries' = Append(entries, ScribbleEntry)
       /\ result' = [op |-> "mutate", ref |-> ref]
  /\ UNCHANGED <<operatingHours, dateTime, input, dates, storeVars>>

NextHeap ==
  \/ CallGetDefaultOperatingHours
  \/ CallSanitizeOperatingHours
  \/ MutateField
  \/ ReplaceEntry

SpecHeap == InitHeap /\ [][NextHeap]_vars

\* C14: whatever calls were made and whatever the callers wrote into the
\* schedules they were handed, DEFAULT_OPERATING_HOURS keeps its value, and
\* sanitizeOperatingHours({}) returns the default's value in objects that are
\* not the default's.
C14_DefaultIsNeverAliased ==
  /\ Deref(schedules, entries, DefaultRef) = DEFAULT_OPERATING_HOURS
  /\ (result.op = "sanitizeOperatingHours" /\ input = EmptyInput) =>
       /\ Deref(schedules, entries, result.ref) = DEFAULT_OPERATING_HOURS
       /\ result.ref # DefaultRef
       /\ EntriesOf(schedules, result.ref)
            \cap EntriesOf(schedules, DefaultRef) = {}

\* sanitizeOperatingHours({}) returning after a caller has overwritten an
\* entry of a schedule handed out earlier
C14_Witness ==
  /\ result.op = "sanitizeOperatingHours"
  /\ input = EmptyInput
  /\ \E ref \in HandedOut :
       /\ ref # result.ref
       /\ Deref(schedules, entries, ref)[MutatedDay].open = ScribbleEntry.open
       /\ Deref(schedules, entries, ref)[MutatedDay].closed

-----------------------------------------------------------------------------
\* RestaurantLocationController over the restaurant_location table

\* Bound: how many requests the controller receives.
MaxRequests == 2

T2300 == <<"2", "3", ":", "0", "0">>

T2400 == <<"2", "4", ":", "0", "0">>

InputDay(open, close, closed) ==
  [open |-> open, close |-> close, closed |-> closed]

\* the operatingHours of the README's create request, with the closing time
\* of friday and saturday left open
WeekInput(lateClose) ==
  [isNull |-> FALSE,
   days |->
     [day \in DaySet |->
        IF day = "friday"
        THEN InputDay(<<"1", "1", ":", "0", "0">>, lateClose, "false")
        ELSE IF day = "saturday"
        THEN InputDay(<<"1", "2", ":", "0", "0">>, lateClose, "false")
        ELSE IF day = "sunday"
        THEN InputDay(<<"0", "0", ":", "0", "0">>,
                      <<"0", "0", ":", "0", "0">>, "true")
        ELSE InputDay(<<"1", "1", ":", "0", "0">>, T2300, "false")]]

\* the operatingHours of the README's PATCH request
SundayOnlyInput ==
  [isNull |-> FALSE,
   days |-> [day \in {"sunday"} |->
               InputDay(<<"1", "2", ":", "0", "0">>, T2200, "false")]]

\* a body whose monday close is a JSON array
ArrayCloseInput ==
  [isNull |-> FALSE,
   days |-> [day \in {"monday"} |->
               InputDay(<<"9", ":", "0", "0">>,
                        ArrayOf(<<"0", "9", ":", "0", "0">>), "false")]]

\* the operatingHours of a request body; NoInput is a body without the
\* property, or with a falsy one
BodyHours ==
  {NoInput, SundayOnlyInput, WeekInput(T2300), WeekInput(T2400),
   ArrayCloseInput}

\* the sanitize and validate lines of create, update and updateOperatingHours
Checked(hours) ==
  LET sanitizedHours == sanitizeOperatingHours(hours).value
      validation == validateOperatingHours(sanitizedHours)
  IN [validation |-> IF validation.threw THEN "threw"
                     ELSE IF validation.isValid THEN "passed" ELSE "failed",
      sanitizedHours |-> sanitizedHours]

\* how a handler ends when its hours did not pass
Rejection(validation) ==
  IF validation = "threw" THEN "TypeError" ELSE "BadRequestError"

Row(address, hours) ==
  [active |-> TRUE, address |-> address, operatingHours |-> hours]

\* a request, the place its handler is at and its outcome so far
Request(op, id, hours, pc, status, validation, wrote) ==
  [op |-> op, id |-> id, hours |-> hours, pc |-> pc, status |-> status,
   validation |-> validation, wrote |-> wrote]

\* EntityUtils.existsAndIsActive
existsAndIsActive(id) == id \in 1..Len(store) /\ store[id].active

\* the ids a request names: the rows of the table and one id beyond them
RequestIds == 1..(Len(store) + 1)

\* one location, created earlier with the README's hours closing at 23:00
InitStore ==
  /\ store = << Row("a", sanitizeOperatingHours(WeekInput(T2300)).value) >>
  /\ pending = <<>>
  /\ input = NoInput
  /\ result = NoCall
  /\ operatingHours = DEFAULT_OPERATING_HOURS
  /\ dateTime = ClockSamples[1]
  /\ schedules = <<>>
  /\ entries = <<>>
  /\ dates = <<>>

StoreFrame == UNCHANGED <<operatingHours, dateTime, result, input, heapVars>>

\* POST /locations: the hours are checked, or the default is taken, and the
\* row is saved
Create ==
  /\ Len(pending) < MaxRequests
  /\ \E hours \in BodyHours :
       LET id == Len(store) + 1
       IN IF hours.isNull
          THEN /\ store' = Append(store, Row("a", getDefaultOperatingHours))
               /\ pending' = Append(pending,
                    Request("create", id, hours, "done", "Created",
                            "skipped", TRUE))
          ELSE LET c == Checked(hours)
               IN IF c.validation = "passed"
                  THEN /\ store' = Append(store, Row("a", c.sanitizedHours))
                       /\ pending' = Append(pending,
                            Request("create", id, hours, "done", "Created",
                                    "passed", TRUE))
                  ELSE /\ store' = store
                       /\ pending' = Append(pending,
                            Request("create", 0, hours, "done",
                                    Rejection(c.validation), c.validation,
                                    FALSE))
  /\ StoreFrame

\* a write that keeps the stored entry of every day the request left at
\* the default
WrittenHours_Merged(stored, sanitizedHours) ==
  [day \in DaySet |->
     IF sanitizedHours[day] = DEFAULT_OPERATING_HOURS[day]
     THEN stored[day] ELSE sanitizedHours[day]]

\* the operatingHours column after locationRepository.update: the json
\* column is replaced as a whole
WrittenHours(stored, sanitizedHours) == sanitizedHours

\* PUT /locations/:id up to the answer of existsAndIsActive
Update_Check ==
  /\ Len(pending) < MaxRequests
  /\ \E id \in RequestIds, hours \in BodyHours :
       pending' = Append(pending,
         IF existsAndIsActive(id)
         THEN Request("update", id, hours, "write", "pending", "skipped",
                      FALSE)
         ELSE Request("update", id, hours, "done", "NotFoundError",
                      "skipped", FALSE))
  /\ store' = store
  /\ StoreFrame

\* PUT /locations/:id from the hours check to locationRepository.update,
\* which writes the row by id whatever its active flag is
Update_Write ==
  /\ \E i \in 1..Len(pending) :
       LET r == pending[i]
           c == Checked(r.hours)
       IN /\ r.op = "update"
          /\ r.pc = "write"
          /\ IF r.hours.isNull
             THEN /\ store' = [store EXCEPT ![r.id].address = "b"]
                  /\ pending' = [pending EXCEPT ![i].pc = "read",
                                                ![i].wrote = TRUE]
             ELSE IF c.validation = "passed"
             THEN /\ store' = [store EXCEPT
                                 ![r.id].address = "b",
                                 ![r.id].operatingHours =
                                    WrittenHours(@, c.sanitizedHours)]
                  /\ pending' = [pending EXCEPT ![i].pc = "read",
                                                ![i].validation = "passed",
                                                ![i].wrote = TRUE]
             ELSE /\ store' = store
                  /\ pending' = [pending EXCEPT
                                   ![i].pc = "done",
                                   ![i].validation = c.validation,
                                   ![i].status = Rejection(c.validation)]
  /\ StoreFrame

\* PUT /locations/:id from findOneActiveEntity to the response
Update_Read ==
  /\ \E i \in 1..Len(pending) :
       LET r == pending[i]
       IN /\ r.op = "update"
          /\ r.pc = "read"
          /\ pending' = [pending EXCEPT
                           ![i].pc = "done",
                           ![i].status = IF store[r.id].active THEN "OK"
                                         ELSE "NotFoundError"]
  /\ store' = store
  /\ StoreFrame

\* PATCH /locations/:id/operating-hours up to the answer of existsAndIsActive
UpdateOperatingHours_Check ==
  /\ Len(pending) < MaxRequests
  /\ \E id \in RequestIds, hours \in BodyHours :
       pending' = Append(pending,
         IF hours.isNull
         THEN Request("updateOperatingHours", id, hours, "done",
                      "BadRequestError", "skipped", FALSE)
         ELSE IF existsAndIsActive(id)
         THEN Request("updateOperatingHours", id, hours, "write", "pending",
                      "skipped", FALSE)
         ELSE Request("updateOperatingHours", id, hours, "done",
                      "NotFoundError", "skipped", FALSE))
  /\ store' = store
  /\ StoreFrame

\* PATCH /locations/:id/operating-hours from the hours check to
\* locationRepository.update
UpdateOperatingHours_Write ==
  /\ \E i \in 1..Len(pending) :
       LET r == pending[i]
           c == Checked(r.hours)
       IN /\ r.op = "updateOperatingHours"
          /\ r.pc = "write"
          /\ IF c.validation = "passed"
             THEN /\ store' = [store EXCEPT
                                 ![r.id].operatingHours =
                                    WrittenHours(@, c.sanitizedHours)]
                  /\ pending' = [pending EXCEPT ![i].pc = "read",
                                                ![i].validation = "passed",
                                                ![i].wrote = TRUE]
             ELSE /\ store' = store
                  /\ pending' = [pending EXCEPT
                                   ![i].pc = "done",
                                   ![i].validation = c.validation,
                                   ![i].status = Rejection(c.validation)]
  /\ StoreFrame

\* PATCH /locations/:id/operating-hours from findOneActiveEntity to the
\* response
UpdateOperatingHours_Read ==
  /\ \E i \in 1..Len(pending) :
       LET r == pending[i]
       IN /\ r.op = "updateOperatingHours"
          /\ r.pc = "read"
          /\ pending' = [pending EXCEPT
                           ![i].pc = "done",
                           ![i].status = IF store[r.id].active THEN "OK"
                                         ELSE "NotFoundError"]
  /\ store' = store
  /\ StoreFrame

\* DELETE /locations/:id up to the answer of existsAndIsActive
Delete_Check ==
  /\ Len(pending) < MaxRequests
  /\ \E id \in RequestIds :
       pending' = Append(pending,
         IF existsAndIsActive(id)
         THEN Request("delete", id, NoInput, "write", "pending", "skipped",
                      FALSE)
         ELSE Request("delete", id, NoInput, "done", "NotFoundError",
                      "skipped", FALSE))
  /\ store' = store
  /\ StoreFrame

\* EntityUtils.softDelete and the response
Delete_SoftDelete ==
  /\ \E i \in 1..Len(pending) :
       LET r == pending[i]
       IN /\ r.op = "delete"
          /\ r.pc = "write"
          /\ store' = [store EXCEPT ![r.id].active = FALSE]
          /\ pending' = [pending EXCEPT ![i].pc = "done",
                                        ![i].status = "OK",
                                        ![i].wrote = TRUE]
  /\ StoreFrame

NextStore ==
  \/ Create
  \/ Update_Check
  \/ Update_Write
  \/ Update_Read
  \/ UpdateOperatingHours_Check
  \/ UpdateOperatingHours_Write
  \/ UpdateOperatingHours_Read
  \/ Delete_Check
  \/ Delete_SoftDelete

SpecStore == InitStore /\ [][NextStore]_vars

\* the requests received so far
Requests == {pending[i] : i \in 1..Len(pending)}

\* the hours of a request went through sanitize and did not pass validate
HoursNotPassed(r) == r.validation \in {"failed", "threw"}

\* C18: every stored schedule passes validateOperatingHours, and a request
\* whose sanitized hours do not pass it ends in BadRequestError without
\* having created or changed a row.
C18_OnlyValidHoursAreStored ==
  /\ \A id \in 1..Len(store) :
       LET validation == validateOperatingHours(store[id].operatingHours)
       IN ~validation.threw /\ validation.isValid
  /\ \A r \in Requests :
       HoursNotPassed(r) => (r.status = "BadRequestError" /\ ~r.wrote)

\* the other requests wrote no hours to the row a create request made
HoursUntouched(i) ==
  \A j \in 1..Len(pending) :
     (j # i /\ pending[j].id = pending[i].id /\ pending[j].wrote)
       => pending[j].op = "delete"

C20_AllDaysMustBeSpecified ==
  \A r \in Requests :
     (~r.hours.isNull /\ DOMAIN r.hours.days # DaySet) =>
        /\ ~r.wrote
        /\ r.status \in {"pending", "BadRequestError", "NotFoundError"}

\* the hours of a request with every closing time "24:00" replaced by c
WithLateClose(hours, c) ==
  [isNull |-> hours.isNull,
   days |-> [day \in DOMAIN hours.days |->
               IF hours.days[day].close = T2400
               THEN [hours.days[day] EXCEPT !.close = c]
               ELSE hours.days[day]]]

\* hours that give an open day the closing time "24:00" and are acceptable
\* otherwise
ClosesAtMidnight(hours) ==
  /\ ~hours.isNull
  /\ \E day \in DOMAIN hours.days :
       /\ hours.days[day].closed = "false"
       /\ hours.days[day].close = T2400
  /\ Checked(WithLateClose(hours, T2300)).validation = "passed"

\* C21: a create request whose hours close an open day at "24:00", as the
\* README example and the test script do, is answered with a created
\* location that has an id.
C21_MidnightCloseIsAccepted ==
  \A r \in Requests :
     (r.op = "create" /\ ClosesAtMidnight(r.hours)) =>
        /\ r.status = "Created"
        /\ r.id \in 1..Len(store)

-----------------------------------------------------------------------------
\* the loop of getNextOpeningTime, one iteration at a time

\* the week's entries of a scanned schedule: closed, or open from 09:00
ScanEntries ==
  {[open |-> T0900, close |-> T2200, closed |-> c] : c \in BOOLEAN}

ScanSchedules == [DaySet -> ScanEntries]

\* the loop's position: the offset i, the weekdays examined so far and the
\* value returned once the call is over
Scanning(i, examined) ==
  [op |-> "scanning", i |-> i, examined |-> examined, value |-> NoDate]

ScanReturned(i, examined, value) ==
  [op |-> "getNextOpeningTime", i |-> i, examined |-> examined,
   value |-> value]

InitScan ==
  /\ dateTime \in Instants
  /\ operatingHours \in ScanSchedules
  /\ result = Scanning(0, <<>>)
  /\ Idle

\* one pass through the loop body at offset result.i
Scan_Iterate ==
  /\ result.op = "scanning"
  /\ LoopContinues(result.i)
  /\ LET i == result.i
         checkDate == AddDays(dateTime, i)
         dayOfWeek == dayNames[getDay(checkDate) + 1]
         examined == Append(result.examined, dayOfWeek)
     IN IF dayOfWeek \notin DOMAIN operatingHours
        THEN result' = ScanReturned(i, examined, DateThrew)
        ELSE LET daySchedule == operatingHours[dayOfWeek]
             IN IF IsCandidate(daySchedule)
                THEN IF ~IsString(daySchedule.open)
                     THEN result' = ScanReturned(i, examined, DateThrew)
                     ELSE LET openingTime ==
                                OpeningTime(checkDate, daySchedule.open)
                          IN IF SkipToday(i, openingTime, dateTime)
                             THEN result' = Scanning(i + 1, examined)
                             ELSE result' = ScanReturned(i, examined,
                                                         ADate(openingTime))
                ELSE result' = Scanning(i + 1, examined)
  /\ UNCHANGED <<operatingHours, dateTime, input, heapVars, storeVars>>

\* the return null after the loop
Scan_Exhausted ==
  /\ result.op = "scanning"
  /\ ~LoopContinues(result.i)
  /\ result' = ScanReturned(result.i, result.examined, NoDate)
  /\ UNCHANGED <<operatingHours, dateTime, input, heapVars, storeVars>>

NextScan == Scan_Iterate \/ Scan_Exhausted

\* a running call goes on running: the loop is synchronous code
SpecScan == InitScan /\ [][NextScan]_vars /\ WF_vars(NextScan)

\* no weekday is examined twice and the offsets stay within 0..6
ExaminesEachDayOnce ==
  /\ result.i \in 0..7
  /\ Len(result.examined) <= 7
  /\ \A a, b \in 1..Len(result.examined) :
       a # b => result.examined[a] # result.examined[b]
  /\ \A k \in 1..Len(result.examined) :
       result.examined[k] = CalendarWeekday(dateTime + (k - 1) * MsPerDay)

\* the call is over with an instant or with null
ScanIsOver ==
  /\ result.op = "getNextOpeningTime"
  /\ ~result.value.threw
  /\ result.value = getNextOpeningTime(operatingHours, dateTime)

\* C22: getNextOpeningTime examines each weekday at most once, at the offsets
\* 0..6 from the asked instant's day, and then returns an instant or null.
C22_ScanTerminatesWithinAWeek == [](ExaminesEachDayOnce) /\ <>(ScanIsOver)

\* a call that examined all seven days and returned null
C22_Witness ==
  /\ result.op = "getNextOpeningTime"
  /\ Len(result.examined) = 7
  /\ result.value.isNull

-----------------------------------------------------------------------------
\* engine calls by several callers on one schedule object and one Date object

\* Date.getDate and Date.setDate within January 1970
getDate(t) == (t \div MsPerDay) + 1

setDate(t, date) == (date - 1) * MsPerDay + (t % MsPerDay)

DateObjects(D, ref) == [dates |-> D, ref |-> ref]

\* const checkDate = startDate: the same object under a second name
NewDate_Alias(D, ref) == DateObjects(D, ref)

\* new Date(other): a new object holding other's instant
NewDate(D, ref) == DateObjects(Append(D, D[ref]), Len(D) + 1)

ScanResult(D, value) == [dates |-> D, value |-> value]

RECURSIVE ScanHeap(_, _, _, _)

\* the loop of getNextOpeningTime from offset i on, with its Date objects
ScanHeap(D, oh, startRef, i) ==
  IF ~LoopContinues(i) THEN ScanResult(D, NoDate)
  ELSE LET c == NewDate(D, startRef)
           D1 == [c.dates EXCEPT
                    ![c.ref] = setDate(@, getDate(c.dates[startRef]) + i)]
           dayOfWeek == dayNames[getDay(D1[c.ref]) + 1]
       IN IF dayOfWeek \notin DOMAIN oh THEN ScanResult(D1, DateThrew)
          ELSE LET daySchedule == oh[dayOfWeek]
               IN IF IsCandidate(daySchedule)
                  THEN IF ~IsString(daySchedule.open)
                       THEN ScanResult(D1, DateThrew)
                       ELSE LET o == NewDate(D1, c.ref)
                                parts == Split(daySchedule.open)
                                D2 == [o.dates EXCEPT
                                         ![o.ref] = setHours(@,
                                                      ParsePart(parts, 1),
                                                      ParsePart(parts, 2))]
                            IN IF SkipToday(i, D2[o.ref], D2[startRef])
                               THEN ScanHeap(D2, oh, startRef, i + 1)
                               ELSE ScanResult(D2, ADate(D2[o.ref]))
                  ELSE ScanHeap(D1, oh, startRef, i + 1)

\* the schedule object and the Date object the callers share
ArgRef == DefaultRef + 1

InstantRef == 1

EngineEntries ==
  {[open |-> T0900, close |-> T2200, closed |-> FALSE],
   [open |-> T2200, close |-> T0200, closed |-> FALSE],
   [open |-> T0900, close |-> T2200, closed |-> TRUE]}

\* thursday and friday of one kind, the other five days of another
EngineSchedules ==
  {[d \in DaySet |-> IF d \in {"thursday", "friday"} THEN e ELSE f] :
     e \in EngineEntries, f \in EngineEntries}

EngineResult(op, count, threw, value) ==
  [op |-> op, count |-> count, threw |-> threw, value |-> value]

InitEngine ==
  /\ dateTime \in Instants
  /\ operatingHours \in EngineSchedules
  /\ dates = <<dateTime>>
  /\ schedules = << [day \in DaySet |-> IndexOf(day)],
                    [day \in DaySet |-> Len(DAYS) + IndexOf(day)] >>
  /\ entries = [i \in 1..Len(DAYS) |-> DEFAULT_OPERATING_HOURS[DAYS[i]]]
               \o [i \in 1..Len(DAYS) |-> operatingHours[DAYS[i]]]
  /\ result = EngineResult("none", 0, FALSE, FALSE)
  /\ input = NoInput
  /\ store = <<>>
  /\ pending = <<>>

\* the schedule the callers pass, as it is in the heap now
SharedSchedule == Deref(schedules, entries, ArgRef)

EngineFrame == UNCHANGED <<operatingHours, dateTime, input, storeVars>>

Call_isOpenAt ==
  /\ result.count < MaxCalls
  /\ LET r == isOpenAt(SharedSchedule, dates[InstantRef])
     IN result' = EngineResult("isOpenAt", result.count + 1, r.threw, r.value)
  /\ UNCHANGED heapVars
  /\ EngineFrame

Call_getNextOpeningTime ==
  /\ result.count < MaxCalls
  /\ LET r == ScanHeap(dates, SharedSchedule, InstantRef, 0)
     IN /\ dates' = r.dates
        /\ result' = EngineResult("getNextOpeningTime", result.count + 1,
                                  r.value.threw, r.value)
  /\ UNCHANGED <<schedules, entries>>
  /\ EngineFrame

Call_validateOperatingHours ==
  /\ result.count < MaxCalls
  /\ LET r == validateOperatingHours(SharedSchedule)
     IN result' = EngineResult("validateOperatingHours", result.count + 1,
                               r.threw, r.errors)
  /\ UNCHANGED heapVars
  /\ EngineFrame

Call_sanitizeOperatingHours ==
  /\ result.count < MaxCalls
  /\ LET h == HeapSanitize(schedules, entries, AsInput(SharedSchedule))
     IN /\ schedules' = h.schedules
        /\ entries' = h.entries
        /\ result' = EngineResult("sanitizeOperatingHours", result.count + 1,
                                  FALSE, Deref(h.schedules, h.entries, h.ref))
  /\ UNCHANGED dates
  /\ EngineFrame

NextEngine ==
  \/ Call_isOpenAt
  \/ Call_getNextOpeningTime
  \/ Call_validateOperatingHours
  \/ Call_sanitizeOperatingHours

SpecEngine == InitEngine /\ [][NextEngine]_vars

\* C23: whatever engine calls ran before, the shared schedule, the shared
\* instant and the default keep their values, and each call returns what it
\* returns when it runs alone on those values.
C23_EngineCallsLeaveArgumentsAlone ==
  /\ SharedSchedule = operatingHours
  /\ dates[InstantRef] = dateTime
  /\ Deref(schedules, entries, DefaultRef) = DEFAULT_OPERATING_HOURS
  /\ result.op = "isOpenAt" =>
       LET alone == isOpenAt(operatingHours, dateTime)
       IN result.threw = alone.threw /\ result.value = alone.value
  /\ result.op = "getNextOpeningTime" =>
       result.value = getNextOpeningTime(operatingHours, dateTime)
  /\ result.op = "validateOperatingHours" =>
       LET alone == validateOperatingHours(operatingHours)
       IN result.threw = alone.threw /\ result.value = alone.errors
  /\ result.op = "sanitizeOperatingHours" =>
       result.value = sanitizeOperatingHours(AsInput(operatingHours)).value

\* isOpenAt answering true after getNextOpeningTime ran on the same
\* arguments and made Date objects of its own
C23_Witness ==
  /\ result.op = "isOpenAt"
  /\ result.count = 2
  /\ result.value
  /\ Len(dates) > 1

-----------------------------------------------------------------------------
\* the schedule has no entry for the weekday of the asked instant, the first
\* weekday both isOpenAt and getNextOpeningTime examine
NoEntryToday == CalendarWeekday(dateTime) \notin DOMAIN operatingHours

\* C24: when the schedule has no entry for the weekday examined, isOpenAt
\* and getNextOpeningTime return a result instead of raising an error.
C24_MissingEntryDegradesGracefully ==
  (NoEntryToday /\ result.op \in {"isOpenAt", "getNextOpeningTime"})
    => ~result.threw

-----------------------------------------------------------------------------
\* the schedules that have today's entry of operatingHours and one other
\* entry on the six other days
SameTodayElsewhere ==
  {[d \in DaySet |-> IF d = CalendarWeekday(dateTime) THEN Today ELSE e] :
     e \in EngineEntries}

\* the asked instant with its seconds and milliseconds cut off
StartOfMinute == dateTime - (dateTime % MsPerMinute)

-----------------------------------------------------------------------------
\* request i writes hours to its row in this step
WritesHours(i) ==
  /\ i \in 1..Len(pending)
  /\ pending[i].op \in {"update", "updateOperatingHours"}
  /\ ~pending[i].hours.isNull
  /\ ~pending[i].wrote
  /\ pending'[i].wrote

-----------------------------------------------------------------------------
\* getNextOpeningTime returned an instant
NextOpeningFound ==
  /\ result.op = "getNextOpeningTime"
  /\ ~result.threw
  /\ ~result.value.isNull

\* C27: an instant returned by getNextOpeningTime is strictly later than the
\* asked instant, milliseconds included.
C27_NextOpeningIsStrictlyLater ==
  NextOpeningFound => result.value.time > dateTime

\* asked at the very instant today's window opens, or seconds after it: the
\* answer is an opening on a later day
C27_Witness ==
  /\ NextOpeningFound
  /\ ~Today.closed
  /\ OpeningTime(dateTime, Today.open) <= dateTime
  /\ dateTime - OpeningTime(dateTime, Today.open) < MsPerMinute
  /\ result.value.time >= StartOfDay(dateTime) + MsPerDay

-----------------------------------------------------------------------------
\* C28: for a schedule that passes validation, the instant getNextOpeningTime
\* returns is one at which isOpenAt answers true.
C28_OpenAtNextOpening ==
  (NextOpeningFound /\ validateOperatingHours(operatingHours).isValid) =>
     isOpenAt(operatingHours, result.value.time) = Returned(TRUE)

\* the returned opening is that of a window running over midnight
C28_Witness ==
  /\ NextOpeningFound
  /\ validateOperatingHours(operatingHours).isValid
  /\ operatingHours[CalendarWeekday(result.value.time)].open = T2200
  /\ operatingHours[CalendarWeekday(result.value.time)].close = T0200
  /\ ClockMinute(result.value.time) = 22 * 60

-----------------------------------------------------------------------------
\* GET /locations/:id/is-open under a running clock; dateTime is the clock

\* Bound: how many times the clock moves while a request is handled.
MaxTicks == 2

\* how far the clock moves at once
TickSteps == {1, MsPerMinute}

\* the handler's position and what it has computed so far
IsOpenCall(pc, id, status, isOpen, nextOpening, currentTime, ticks) ==
  [op |-> "isCurrentlyOpen", pc |-> pc, id |-> id, status |-> status,
   isOpen |-> isOpen, nextOpening |-> nextOpening,
   currentTime |-> currentTime, ticks |-> ticks]

InitClock ==
  /\ dateTime \in Instants
  /\ operatingHours \in EngineSchedules
  /\ store = << Row("a", operatingHours) >>
  /\ \E id \in 1..2 :
       result = IsOpenCall("find", id, "pending", FALSE, NoDate, 0, 0)
  /\ pending = <<>>
  /\ input = NoInput
  /\ schedules = <<>>
  /\ entries = <<>>
  /\ dates = <<>>

ClockFrame == UNCHANGED <<operatingHours, input, heapVars, storeVars>>

\* time passes between two steps of the handler
Tick ==
  /\ result.pc \in {"find", "check", "search", "respond"}
  /\ result.ticks < MaxTicks
  /\ \E step \in TickSteps : dateTime' = dateTime + step
  /\ result' = [result EXCEPT !.ticks = @ + 1]
  /\ ClockFrame

\* findOneActiveEntity and the NotFoundError
IsCurrentlyOpen_Find ==
  /\ result.pc = "find"
  /\ result' = IF existsAndIsActive(result.id)
               THEN [result EXCEPT !.pc = "check"]
               ELSE [result EXCEPT !.pc = "done", !.status = "NotFoundError"]
  /\ UNCHANGED dateTime
  /\ ClockFrame

\* OperatingHoursUtils.isCurrentlyOpen: isOpenAt at new Date()
IsCurrentlyOpen_Check ==
  /\ result.pc = "check"
  /\ LET r == isOpenAt(store[result.id].operatingHours, dateTime)
     IN result' = IF r.threw
                  THEN [result EXCEPT !.pc = "done", !.status = "TypeError"]
                  ELSE [result EXCEPT !.pc = "search", !.isOpen = r.value]
  /\ UNCHANGED dateTime
  /\ ClockFrame

\* !isOpen ? getNextOpeningTime(hours) : null, from a new Date() of its own
IsCurrentlyOpen_Search ==
  /\ result.pc = "search"
  /\ LET r == IF result.isOpen THEN NoDate
              ELSE getNextOpeningTime(store[result.id].operatingHours,
                                      dateTime)
     IN result' = IF r.threw
                  THEN [result EXCEPT !.pc = "done", !.status = "TypeError"]
                  ELSE [result EXCEPT !.pc = "respond", !.nextOpening = r]
  /\ UNCHANGED dateTime
  /\ ClockFrame

\* currentTime: new Date().toISOString(), and the response
IsCurrentlyOpen_Respond ==
  /\ result.pc = "respond"
  /\ result' = [result EXCEPT !.pc = "done", !.status = "OK",
                              !.currentTime = dateTime]
  /\ UNCHANGED dateTime
  /\ ClockFrame

NextClock ==
  \/ Tick
  \/ IsCurrentlyOpen_Find
  \/ IsCurrentlyOpen_Check
  \/ IsCurrentlyOpen_Search
  \/ IsCurrentlyOpen_Respond

SpecClock == InitClock /\ [][NextClock]_vars

\* C29: in an is-open response nextOpeningTime is null when isCurrentlyOpen
\* is true, and a nextOpeningTime that is not null is strictly later than
\* the response's currentTime.
C29_NextOpeningAfterCurrentTime ==
  (result.op = "isCurrentlyOpen" /\ result.status = "OK") =>
     /\ result.isOpen => result.nextOpening.isNull
     /\ ~result.nextOpening.isNull =>
          result.nextOpening.time > result.currentTime

-----------------------------------------------------------------------------
\* request i, an update or updateOperatingHours, performs its write in this
\* step
UpdateWrites(i) ==
  /\ i \in 1..Len(pending)
  /\ pending[i].op \in {"update", "updateOperatingHours"}
  /\ ~pending[i].wrote
  /\ pending'[i].wrote

\* C30: the write of update and updateOperatingHours leaves a row alone that
\* is inactive when the write happens, also when a delete of the same
\* location ran after the handler's existence check.
C30_InactiveRowsAreNotWritten ==
  [][\A i \in 1..Len(pending) :
       (UpdateWrites(i) /\ ~store[pending[i].id].active)
         => store'[pending[i].id] = store[pending[i].id]]_vars

====
